---- MODULE Spec2Model ----
(***************************************************************************)
(* netchart: a terminal network-traffic monitor (src/netchart.py).         *)
(*                                                                         *)
(* The model follows main(): one first snapshot, then the loop             *)
(*   get_network_stats -> update_data -> plot_network_traffic -> sleep     *)
(* which a KeyboardInterrupt leaves.  Speeds are Python floats obtained by *)
(* dividing an integer byte difference by 1024; that division is exact, so *)
(* a speed is modelled as the rational [num, den] it denotes.              *)
(***************************************************************************)
EXTENDS Integers, Sequences, FiniteSets, TLC

VARIABLES
    pc,               \* position of main: "start", "sample", "update", "render", "terminated"
    cursor_visible,   \* terminal cursor state (ESC[?25l hides, ESC[?25h shows)
    exit_cause,       \* "none", "KeyboardInterrupt" or "StopIteration"
    auto_scale,       \* the --auto-scale/--no-auto-scale option
    previous_stats,   \* local of main
    current_stats,    \* local of main
    interfaces_data,  \* the module-level defaultdict
    ylim,             \* upper bound last passed to plt.ylim, <<>> if never
    height,           \* height last returned by get_terminal_size
    stats_lines,      \* value last returned by create_stats_display
    ticks,            \* number of loop iterations begun
    observed          \* history variable: the counter pairs every speed sample was computed from

vars == <<pc, cursor_visible, exit_cause, auto_scale, previous_stats, current_stats,
          interfaces_data, ylim, height, stats_lines, ticks, observed>>

----------------------------------------------------------------------------
(* Bounds of the model *)

\* value of the --history option (history_size)
HistorySize == 2

\* loop iterations explored beyond the ones that fill the history window
ExtraTicks == 1

MaxTicks == HistorySize + ExtraTicks

\* non-loopback interfaces the OS may report
Interfaces == {"eth0", "wlan0"}

\* (bytes_sent, bytes_recv) counter readings; a later reading may be lower
\* than an earlier one (interface reset)
CounterPairs == {<<0, 2560>>, <<512, 0>>}

\* terminal row counts returned by shutil.get_terminal_size
TermRows == {24, 40}

----------------------------------------------------------------------------
(* Rational arithmetic for the float values *)

Rat(n, d) == [num |-> n, den |-> d]

RatLess(a, b) == a.num * b.den < b.num * a.den

RatLeq(a, b) == a.num * b.den <= b.num * a.den

RatEq(a, b) == a.num * b.den = b.num * a.den

\* Python's max(a, b): the first argument wins a tie
PyMax(a, b) == IF RatLess(a, b) THEN b ELSE a

RECURSIVE PyMaxList(_)
\* Python's max(list) for a non-empty list
PyMaxList(s) ==
    IF Len(s) = 1 THEN s[1]
    ELSE PyMax(PyMaxList(SubSeq(s, 1, Len(s) - 1)), s[Len(s)])

Range(s) == {s[k] : k \in 1..Len(s)}

----------------------------------------------------------------------------
(* get_network_stats *)

\* what psutil.net_io_counters(pernic=True) may return: the loopback device
\* and any subset of the other interfaces
NetIO ==
    UNION {[({"lo"} \cup S) -> CounterPairs] : S \in SUBSET Interfaces}

get_network_stats(net_io) ==
    [i \in {n \in DOMAIN net_io : n # "lo"} |-> net_io[i]]

EmptyStats == [i \in {} |-> <<0, 0>>]

----------------------------------------------------------------------------
(* update_data *)

calculate_speed_clamped(current, previous) ==
    IF current < previous THEN Rat(0, 1024) ELSE Rat(current - previous, 1024)

calculate_speed(current, previous) == Rat(current - previous, 1024)

\* the defaultdict factory
DefaultEntry(now) ==
    [bytes_sent  |-> <<>>,
     bytes_recv  |-> <<>>,
     timestamps  |-> <<>>,
     peak_sent   |-> Rat(0, 1),
     peak_recv   |-> Rat(0, 1),
     total_sent  |-> 0,
     total_recv  |-> 0,
     start_time  |-> now]

NewPeakOverwrite(peak, speed) == speed

\* lines 81-82
NewPeak(peak, speed) == PyMax(peak, speed)

\* range(n) as a list
PyRange(n) == [k \in 1..n |-> k - 1]

EvictNoReindex(e, history_size) ==
    IF Len(e.timestamps) > history_size
    THEN [e EXCEPT !.bytes_sent = Tail(@),
                   !.bytes_recv = Tail(@),
                   !.timestamps = Tail(@)]
    ELSE e

EvictSentOnly(e, history_size) ==
    IF Len(e.timestamps) > history_size
    THEN [e EXCEPT !.bytes_sent = Tail(@),
                   !.timestamps = PyRange(Len(Tail(e.timestamps)))]
    ELSE e

\* lines 92-96
Evict(e, history_size) ==
    IF Len(e.timestamps) > history_size
    THEN [e EXCEPT !.bytes_sent = Tail(@),
                   !.bytes_recv = Tail(@),
                   !.timestamps = PyRange(Len(Tail(e.timestamps)))]
    ELSE e

UpdateEntryPeakMixup(e, cur, prev, history_size) ==
    LET sent_speed == calculate_speed(cur[1], prev[1])
        recv_speed == calculate_speed(cur[2], prev[2])
        appended ==
            [e EXCEPT !.peak_sent  = NewPeak(@, sent_speed),
                      !.peak_recv  = NewPeak(@, sent_speed),
                      !.total_sent = cur[1],
                      !.total_recv = cur[2],
                      !.bytes_sent = Append(@, sent_speed),
                      !.bytes_recv = Append(@, recv_speed),
                      !.timestamps = Append(@, Len(e.timestamps))]
    IN  Evict(appended, history_size)

\* lines 77-96 for one interface present in both snapshots
UpdateEntry(e, cur, prev, history_size) ==
    LET sent_speed == calculate_speed(cur[1], prev[1])
        recv_speed == calculate_speed(cur[2], prev[2])
        appended ==
            [e EXCEPT !.peak_sent  = NewPeak(@, sent_speed),
                      !.peak_recv  = NewPeak(@, recv_speed),
                      !.total_sent = cur[1],
                      !.total_recv = cur[2],
                      !.bytes_sent = Append(@, sent_speed),
                      !.bytes_recv = Append(@, recv_speed),
                      !.timestamps = Append(@, Len(e.timestamps))]
    IN  Evict(appended, history_size)

EntryOf(data, i, now) ==
    IF i \in DOMAIN data THEN data[i] ELSE DefaultEntry(now)

update_data_touch_all(data, stats, previous, history_size, now) ==
    [i \in DOMAIN data \cup DOMAIN stats |->
        IF i \in DOMAIN stats /\ i \in DOMAIN previous
        THEN UpdateEntry(EntryOf(data, i, now), stats[i], previous[i], history_size)
        ELSE EntryOf(data, i, now)]

update_data_drop_stale(data, stats, previous, history_size, now) ==
    [i \in (DOMAIN data \cup (DOMAIN stats \cap DOMAIN previous)) \cap DOMAIN stats |->
        IF i \in DOMAIN stats /\ i \in DOMAIN previous
        THEN UpdateEntry(EntryOf(data, i, now), stats[i], previous[i], history_size)
        ELSE data[i]]

\* lines 73-96: the new interfaces_data
update_data(data, stats, previous, history_size, now) ==
    [i \in DOMAIN data \cup (DOMAIN stats \cap DOMAIN previous) |->
        IF i \in DOMAIN stats /\ i \in DOMAIN previous
        THEN UpdateEntry(EntryOf(data, i, now), stats[i], previous[i], history_size)
        ELSE data[i]]

----------------------------------------------------------------------------
(* plot_network_traffic and create_stats_display *)

\* get_terminal_size: rows - 3
get_terminal_height(rows) == rows - 3

\* the order in which the entries of interfaces_data are visited; the value
\* computed below does not depend on it
IfaceOrder == <<"eth0", "wlan0">>

MaxSpeedStepSentOnly(max_speed, e) ==
    IF e.bytes_sent # <<>> \/ e.bytes_recv # <<>>
    THEN PyMax(max_speed, PyMaxList(Append(e.bytes_sent, Rat(0, 1))))
    ELSE max_speed

\* lines 201-204, one entry
MaxSpeedStep(max_speed, e) ==
    IF e.bytes_sent # <<>> \/ e.bytes_recv # <<>>
    THEN PyMax(PyMax(max_speed, PyMaxList(Append(e.bytes_sent, Rat(0, 1)))),
               PyMaxList(Append(e.bytes_recv, Rat(0, 1))))
    ELSE max_speed

RECURSIVE MaxSpeedUpTo(_, _)
\* lines 198-204: max_speed after the first n interfaces of IfaceOrder
MaxSpeedUpTo(data, n) ==
    IF n = 0 THEN Rat(1, 1)
    ELSE LET before == MaxSpeedUpTo(data, n - 1)
         IN  IF IfaceOrder[n] \in DOMAIN data
             THEN MaxSpeedStep(before, data[IfaceOrder[n]])
             ELSE before

\* line 205: the upper bound given to plt.ylim, max_speed * 1.1
YUpper(data) ==
    LET max_speed == MaxSpeedUpTo(data, Len(IfaceOrder))
    IN  Rat(max_speed.num * 11, max_speed.den * 10)

\* the interfaces create_stats_display lists (non-empty timestamps)
ActiveInterfaces(data) == {i \in DOMAIN data : data[i].timestamps # <<>>}

Repeat(x, n) == [k \in 1..n |-> x]

\* lines 120-166: the lines built before the padding loop
StatsBody(data) ==
    <<"top", "Network Summary", "rule", "blank">>
    \o <<"Total Transferred:", "total_sent", "total_recv", "blank",
         "Peak Throughput:", "peak_sent", "peak_recv", "blank",
         "Current Throughput:", "current_sent", "current_recv", "blank">>
    \o <<"Interface Details:">>
    \o Repeat("detail", 4 * Cardinality(ActiveInterfaces(data)))
    \o <<"blank", "Active Interfaces:", "active_count", "blank">>
    \o <<"Monitor Duration:", "duration">>

\* line 161: next(iter(interfaces_data.values())) on an empty dict
StatsRaises(data) == DOMAIN data = {}

\* lines 98-173, when line 161 does not raise
create_stats_display(data, h) ==
    LET body == StatsBody(data)
        pad  == IF Len(body) < h - 1 THEN h - 1 - Len(body) ELSE 0
    IN  body \o Repeat("blank", pad) \o <<"bottom">>

----------------------------------------------------------------------------
(* main *)

Init ==
    /\ pc = "start"
    /\ cursor_visible = TRUE
    /\ exit_cause = "none"
    /\ auto_scale \in BOOLEAN
    /\ previous_stats = EmptyStats
    /\ current_stats = EmptyStats
    /\ interfaces_data = EmptyStats
    /\ ylim = <<>>
    /\ height = 0
    /\ stats_lines = <<>>
    /\ ticks = 0
    /\ observed = [i \in Interfaces |-> <<>>]

\* lines 252-254: clear the screen, hide the cursor, first snapshot
Start ==
    /\ pc = "start"
    /\ \E net_io \in NetIO : previous_stats' = get_network_stats(net_io)
    /\ cursor_visible' = FALSE
    /\ pc' = "sample"
    /\ UNCHANGED <<exit_cause, auto_scale, current_stats, interfaces_data, ylim,
                   height, stats_lines, ticks, observed>>

\* line 256
Sample ==
    /\ pc = "sample"
    /\ ticks < MaxTicks
    /\ \E net_io \in NetIO : current_stats' = get_network_stats(net_io)
    /\ ticks' = ticks + 1
    /\ pc' = "update"
    /\ UNCHANGED <<cursor_visible, exit_cause, auto_scale, previous_stats,
                   interfaces_data, ylim, height, stats_lines, observed>>

\* line 257
Update ==
    /\ pc = "update"
    /\ interfaces_data' =
           update_data(interfaces_data, current_stats, previous_stats, HistorySize, ticks)
    /\ observed' =
           [i \in Interfaces |->
               IF i \in DOMAIN current_stats /\ i \in DOMAIN previous_stats
               THEN Append(observed[i], [prev |-> previous_stats[i], cur |-> current_stats[i]])
               ELSE observed[i]]
    /\ pc' = "render"
    /\ UNCHANGED <<cursor_visible, exit_cause, auto_scale, previous_stats,
                   current_stats, ylim, height, stats_lines, ticks>>

\* lines 258-260: the frame is drawn, then previous_stats = current_stats and sleep
Render ==
    /\ pc = "render"
    /\ ~StatsRaises(interfaces_data)
    /\ \E rows \in TermRows :
          /\ height' = get_terminal_height(rows)
          /\ stats_lines' = create_stats_display(interfaces_data, get_terminal_height(rows))
    /\ ylim' = IF auto_scale THEN <<YUpper(interfaces_data)>> ELSE ylim
    /\ previous_stats' = current_stats
    /\ pc' = "sample"
    /\ UNCHANGED <<cursor_visible, exit_cause, auto_scale, current_stats,
                   interfaces_data, ticks, observed>>

\* line 258 when create_stats_display raises StopIteration at line 161: main
\* catches KeyboardInterrupt only, so the exception ends the process
RenderRaises ==
    /\ pc = "render"
    /\ StatsRaises(interfaces_data)
    /\ \E rows \in TermRows : height' = get_terminal_height(rows)
    /\ ylim' = IF auto_scale THEN <<YUpper(interfaces_data)>> ELSE ylim
    /\ exit_cause' = "StopIteration"
    /\ pc' = "terminated"
    /\ UNCHANGED <<cursor_visible, auto_scale, previous_stats, current_stats,
                   interfaces_data, stats_lines, ticks, observed>>

\* lines 261-263: KeyboardInterrupt anywhere inside the try block
Interrupt ==
    /\ pc \in {"sample", "update", "render"}
    /\ cursor_visible' = TRUE
    /\ exit_cause' = "KeyboardInterrupt"
    /\ pc' = "terminated"
    /\ UNCHANGED <<auto_scale, previous_stats, current_stats, interfaces_data,
                   ylim, height, stats_lines, ticks, observed>>

Next == Start \/ Sample \/ Update \/ Render \/ RenderRaises \/ Interrupt

Spec == Init /\ [][Next]_vars

----------------------------------------------------------------------------
(* Properties *)

Data == interfaces_data

\* the greatest element of a non-empty set of rationals
SetMax(S) == CHOOSE x \in S : \A y \in S : RatLeq(y, x)

Min(a, b) == IF a < b THEN a ELSE b

\* the sent (c = 1) or received (c = 2) speed of the k-th sample ever
\* computed for interface i, from the counters it was computed from
SampleOf(i, k, c) == Rat(observed[i][k].cur[c] - observed[i][k].prev[c], 1024)

AllSamples(i, c) == {SampleOf(i, k, c) : k \in 1..Len(observed[i])}

\* the last Min(n, HistorySize) samples of interface i, oldest first
LastSamples(i, c) ==
    LET n == Len(observed[i])
        m == Min(n, HistorySize)
    IN  [k \in 1..m |-> SampleOf(i, n - m + k, c)]

\* an update_data call has evicted a sample of interface i
Evicted(i) == i \in DOMAIN Data /\ Len(observed[i]) > HistorySize

\* C1: for every interface of interfaces_data the sequences bytes_sent,
\* bytes_recv and timestamps have the same length, at most history_size
C1_LengthsBounded ==
    \A i \in DOMAIN Data :
        /\ Len(Data[i].bytes_sent) = Len(Data[i].bytes_recv)
        /\ Len(Data[i].bytes_recv) = Len(Data[i].timestamps)
        /\ Len(Data[i].timestamps) <= HistorySize

C1_Witness ==
    \E i \in Interfaces : Evicted(i) /\ pc = "render" /\ i \in DOMAIN current_stats

\* C2: the bytes_sent (bytes_recv) history of an interface is exactly the
\* last min(n, history_size) values (current - previous) / 1024 of the n
\* samples computed for it, oldest first, negative ones included
C2_HistoryIsLastSamples ==
    \A i \in DOMAIN Data :
        /\ Data[i].bytes_sent = LastSamples(i, 1)
        /\ Data[i].bytes_recv = LastSamples(i, 2)

C2_Witness ==
    \E i \in Interfaces :
        /\ Evicted(i)
        /\ \E k \in 1..Len(Data[i].bytes_sent) : Data[i].bytes_sent[k].num < 0
        /\ Data[i].bytes_sent[1] # Data[i].bytes_sent[HistorySize]

\* C3: the timestamps of every interface are exactly 0, 1, ..., len - 1
C3_TimestampsConsecutive ==
    \A i \in DOMAIN Data :
        Data[i].timestamps = [k \in 1..Len(Data[i].bytes_sent) |-> k - 1]

C3_Witness ==
    \E i \in Interfaces :
        /\ Evicted(i)
        /\ pc = "render"
        /\ i \in DOMAIN current_stats /\ i \in DOMAIN previous_stats
        /\ Len(Data[i].timestamps) = HistorySize

\* C4: peak_sent and peak_recv of an interface never decrease
C4_PeaksMonotone ==
    [][\A i \in DOMAIN Data :
          i \in DOMAIN Data' =>
              /\ RatLeq(Data[i].peak_sent, Data'[i].peak_sent)
              /\ RatLeq(Data[i].peak_recv, Data'[i].peak_recv)]_vars

\* the peak stands above every sample left in the window, after a counter decrease
C4_Witness ==
    \E i \in Interfaces :
        /\ Evicted(i)
        /\ \A k \in 1..Len(Data[i].bytes_sent) :
              RatLess(Data[i].bytes_sent[k], Data[i].peak_sent)
        /\ Data[i].bytes_sent[Len(Data[i].bytes_sent)].num < 0

\* C5 as stated: the peak of an interface that has a sample equals the
\* greatest sample ever computed for it
C5_PeakIsMaxSample ==
    \A i \in DOMAIN Data :
        observed[i] # <<>> =>
            /\ RatEq(Data[i].peak_sent, SetMax(AllSamples(i, 1)))
            /\ RatEq(Data[i].peak_recv, SetMax(AllSamples(i, 2)))

\* C5 amended: the peak equals the greatest of 0 and every sample ever
\* computed for the interface, evicted ones included
C5_PeakIsMaxOfZeroAndSamples ==
    \A i \in DOMAIN Data :
        /\ RatEq(Data[i].peak_sent, SetMax(AllSamples(i, 1) \cup {Rat(0, 1)}))
        /\ RatEq(Data[i].peak_recv, SetMax(AllSamples(i, 2) \cup {Rat(0, 1)}))

\* the peak is a sample no longer in the window
C5_Witness ==
    \E i \in Interfaces :
        /\ Evicted(i)
        /\ Data[i].peak_recv.num > 0
        /\ \A k \in 1..Len(Data[i].bytes_recv) :
              RatLess(Data[i].bytes_recv[k], Data[i].peak_recv)

\* C6: an update_data call makes an entry for an interface that has none
\* exactly when the interface is in both the current and the previous snapshot
C6_EntryOnlyWhenInBoth ==
    [][(pc = "update" /\ pc' = "render") =>
          \A i \in Interfaces \ DOMAIN Data :
              /\ i \in DOMAIN Data' <=>
                     (i \in DOMAIN current_stats /\ i \in DOMAIN previous_stats)
              /\ i \in DOMAIN Data' => Len(Data'[i].timestamps) = 1
              /\ i \notin DOMAIN Data' => observed'[i] = <<>>]_vars

\* an update_data call has met an interface of the current snapshot alone
C6_Witness ==
    \E i \in Interfaces :
        /\ pc = "render"
        /\ i \in DOMAIN current_stats
        /\ i \notin DOMAIN previous_stats
        /\ i \notin DOMAIN Data
        /\ DOMAIN Data # {}

\* C7: an entry of interfaces_data is never removed, and an update_data call
\* whose current or previous snapshot lacks the interface leaves it unchanged
C7_AbsentInterfaceFrozen ==
    [][\A i \in DOMAIN Data :
          /\ i \in DOMAIN Data'
          /\ (pc = "update" /\ pc' = "render"
                /\ (i \notin DOMAIN current_stats \/ i \notin DOMAIN previous_stats))
             => Data'[i] = Data[i]]_vars

\* an update_data call has updated one interface and skipped another that has an entry
C7_Witness ==
    \E i, j \in Interfaces :
        /\ pc = "render"
        /\ i \in DOMAIN Data
        /\ i \notin DOMAIN current_stats
        /\ j \in DOMAIN current_stats /\ j \in DOMAIN previous_stats
        /\ Len(observed[j]) > Len(observed[i])

\* C8 as stated: create_stats_display returns exactly height lines, the
\* last of which is the bottom border
C8_StatsLinesFillHeight ==
    stats_lines # <<>> =>
        /\ Len(stats_lines) = height
        /\ stats_lines[Len(stats_lines)] = "bottom"

\* C9 as stated: the loop is left through a KeyboardInterrupt only, and the
\* cursor is visible once main has terminated
C9_TerminatedCursorVisible ==
    pc = "terminated" => (exit_cause = "KeyboardInterrupt" /\ cursor_visible)

\* the samples held in the histories of all interfaces
HeldSamples ==
    UNION {Range(Data[i].bytes_sent) \cup Range(Data[i].bytes_recv) : i \in DOMAIN Data}

\* a frame has been drawn with auto-scale from the present interfaces_data
Scaled ==
    /\ auto_scale
    /\ pc \in {"sample", "update"}
    /\ ylim # <<>>
    /\ HeldSamples # {}

\* C10 as stated: the upper bound given to plt.ylim is max(1.0, 1.1 * m),
\* m the greatest sample held in any history
C10_YlimMaxOfOneAndScaled ==
    Scaled =>
        LET m == SetMax(HeldSamples)
        IN  RatEq(ylim[1], SetMax({Rat(1, 1), Rat(11 * m.num, 10 * m.den)}))

\* C10 amended: the upper bound given to plt.ylim is 1.1 * max(1.0, m)
C10_YlimScaledMaxOfOne ==
    Scaled =>
        LET m == SetMax(HeldSamples \cup {Rat(1, 1)})
        IN  RatEq(ylim[1], Rat(11 * m.num, 10 * m.den))

\* a frame drawn while every sample held is below 1.0
C10_Witness ==
    /\ Scaled
    /\ RatLess(SetMax(HeldSamples), Rat(1, 1))
    /\ \E i \in DOMAIN Data : Data[i].bytes_sent[1].num > 0

====
